---------------------------- MODULE Spec2Model ----------------------------
(***************************************************************************)
(* A model of the fix_fn! macro (src/src/lib.rs).                          *)
(*                                                                         *)
(* Two machines are described.                                             *)
(*                                                                         *)
(*  - The run-time machine (Spec) executes the code that rule 1 of the     *)
(*    macro emits: the public closure, HideFnImpl::call, the adapter       *)
(*    closure stored in HideFnImpl.0 and the forwarding closure that       *)
(*    shadows the self parameter.  Every call pushes a frame, every return *)
(*    pops one.  The three closure bodies of the crate's tests (counting   *)
(*    closure, fib, pow) run on it.                                        *)
(*                                                                         *)
(*  - The compile-time machine (MacroSpec) matches a token stream against  *)
(*    the four rules of macro_rules! fix_fn, in order.                     *)
(*                                                                         *)
(* u32 values are pairs <<hi, lo>> of 16-bit limbs (value hi * 2^16 + lo), *)
(* so that the whole u32 range and its overflows are exact.                *)
(***************************************************************************)
EXTENDS Integers, Sequences, FiniteSets

\* ------------------------------------------------------------------ bounds

\* fib is invoked with i in 0 .. MaxFibArg
MaxFibArg == 7
\* pow is invoked with x in 0 .. MaxPowX and y in 0 .. MaxPowY
MaxPowX == 6
MaxPowY == 9
\* invocations of the produced callable in one run
MaxInvocations == 3
\* frames the host stack holds before it overflows
MaxDepth == 40
\* additional parameters of a closure specification handed to the macro
MaxParams == 2

\* the value the counting closure stops at
CountLimit == 10

\* ------------------------------------------------------------ u32 and i32

\* the u32 with value n, for 0 <= n < 2^31
U32(n) == <<n \div 65536, n % 65536>>

\* the product a * b of two 16-bit limbs, as <<hi, lo>>
Mul16(a, b) ==
    LET t0 == a * (b % 256)
        t1 == a * (b \div 256)
        s  == (t1 % 256) * 256 + t0
    IN  <<(t1 \div 256) + (s \div 65536), s % 65536>>

\* a * b on u32: the wrapped product and whether the exact product overflows
U32Mul(a, b) ==
    LET ll  == Mul16(a[2], b[2])
        hl  == Mul16(a[1], b[2])
        lh  == Mul16(a[2], b[1])
        mid == hl[2] + lh[2] + ll[1]
    IN  [val |-> <<mid % 65536, ll[2]>>,
         ovf |-> \/ (a[1] # 0 /\ b[1] # 0)
                 \/ hl[1] # 0
                 \/ lh[1] # 0
                 \/ mid >= 65536]

\* a + b on u32
U32Add(a, b) ==
    LET lo == a[2] + b[2]
        hi == a[1] + b[1] + (lo \div 65536)
    IN  [val |-> <<hi % 65536, lo % 65536>>, ovf |-> hi >= 65536]

\* a - b on u32
U32Sub(a, b) ==
    LET lo == a[2] - b[2]
        bw == IF lo < 0 THEN 1 ELSE 0
        hi == a[1] - b[1] - bw
    IN  [val |-> <<hi % 65536, lo % 65536>>, ovf |-> hi < 0]

\* a / 2 on u32
U32Half(a) == <<a[1] \div 2, (a[2] \div 2) + (a[1] % 2) * 32768>>

\* a % 2 == 0 on u32
U32IsEven(a) == a[2] % 2 = 0

\* a <= b on u32
U32Le(a, b) == a[1] < b[1] \/ (a[1] = b[1] /\ a[2] <= b[2])

\* I32Add adding its second operand twice
I32Add_twice(a, b) ==
    IF a > 2147483647 - b - b
    THEN [val |-> (a - 2147483647 - 1) + (b + b - 2147483647 - 1), ovf |-> TRUE]
    ELSE [val |-> a + b + b, ovf |-> FALSE]

\* a + b on i32, for b >= 0: past i32::MAX the sum wraps by 2^32
I32Add(a, b) ==
    IF a > 2147483647 - b
    THEN [val |-> (a - 2147483647 - 1) + (b - 2147483647 - 1), ovf |-> TRUE]
    ELSE [val |-> a + b, ovf |-> FALSE]

\* ------------------------------------------------------------------- state

VARIABLES
    prog,             \* which closure the macro was applied to: "count", "fib", "pow"
    overflow_checks,  \* the build: TRUE panics on integer overflow, FALSE wraps
    stack,            \* the call stack, innermost frame last
    cell,             \* the RefCell the counting closure captured
    status,           \* "idle", "running", "panicked", "stack_overflow"
    result,           \* <<v>> once the current invocation returned v, else <<>>
    input,            \* the arguments of the current invocation
    invocations,      \* invocations of the produced callable so far
    dispatches,       \* HideFn::call dispatches of the current invocation
    bodyExecs,        \* executions of the user body in the current invocation
    reentries,        \* calls of the self-bound name in the current invocation
    overflowed,       \* an integer operation of the current invocation overflowed
    shape,            \* the closure specification handed to the macro
    source,           \* its token stream
    compiled          \* <<r>> once the macro was expanded with outcome r, else <<>>

rtVars == <<prog, overflow_checks, stack, cell, status, result, input,
            invocations, dispatches, bodyExecs, reentries, overflowed>>
ctVars == <<shape, source, compiled>>
vars == <<rtVars, ctVars>>

\* ------------------------------------------------ the expansion at run time

\* the single implementor instance: let inner = HideFnImpl(...)
Inner == "inner"

Frame(fn, args, this) ==
    [fn |-> fn, args |-> args, this |-> this, pc |-> "start", val |-> <<>>, tmp |-> <<>>]

\* the frame of the produced callable: move |args| -> ret { inner.call(args) }
PublicFrame(args) == Frame("public", args, Inner)

\* HideFnCallFrame receiving the arguments in reverse order
HideFnCallFrame_reversed(this, args) ==
    Frame("call", [k \in 1 .. Len(args) |-> args[Len(args) + 1 - k]], this)

\* the frame of HideFnImpl::call(&self, args)
HideFnCallFrame(this, args) == Frame("call", args, this)

\* the frame of the adapter closure self.0, called as self.0(self, args)
ClosureFrame(this, args) == Frame("closure", args, this)

\* the frame of the forwarding closure |args| $self_arg.call(args)
SelfArgFrame(this, args) == Frame("self_arg", args, this)

Top == stack[Len(stack)]

Running == status = "running" /\ stack # <<>>

\* a panic unwinds the whole stack
Panic == /\ status' = "panicked"
         /\ stack' = <<>>

\* the top frame calls callee and waits for it at waitpc
Call(waitpc, callee) ==
    IF Len(stack) >= MaxDepth
    THEN /\ status' = "stack_overflow"
         /\ stack' = stack
    ELSE /\ status' = status
         /\ stack' = Append([stack EXCEPT ![Len(stack)].pc = waitpc], callee)

\* the top frame moves to pc holding v
Goto(pc, v) ==
    /\ status' = status
    /\ stack' = [stack EXCEPT ![Len(stack)].pc = pc, ![Len(stack)].val = v]

\* an integer operation with outcome r, continued by cont when it does not panic
Checked(r, cont) ==
    IF r.ovf /\ overflow_checks
    THEN /\ Panic
         /\ overflowed' = TRUE
    ELSE /\ cont
         /\ overflowed' = (overflowed \/ r.ovf)

\* where a frame waiting at pc continues once its callee has returned
ResumePc(pc) ==
    CASE pc = "wait"      -> "ret"
      [] pc = "wait1"     -> "got1"
      [] pc = "wait2"     -> "got2"
      [] pc = "wait_rec"  -> "ret"
      [] pc = "wait_even" -> "ret"
      [] pc = "wait_odd"  -> "got_odd"

\* the callee's value v lands in the waiting frame: the second operand of fib's
\* sum beside the first, every other value in val
Resume(f, v) ==
    IF f.pc = "wait2"
    THEN [f EXCEPT !.pc = ResumePc(f.pc), !.tmp = v]
    ELSE [f EXCEPT !.pc = ResumePc(f.pc), !.val = v]

\* the arguments the tests' callers may pass to the produced callable
ArgSpace(p) ==
    CASE p = "count" -> {<<>>}
      [] p = "fib"   -> {<<U32(i)>> : i \in 0 .. MaxFibArg}
      [] p = "pow"   -> {<<U32(x), U32(y)>> : x \in 0 .. MaxPowX, y \in 0 .. MaxPowY}

\* the caller invokes the produced callable: f(), fib(7), pow(3, 9)
Invoke(a) ==
    /\ status = "idle"
    /\ invocations < MaxInvocations
    /\ status' = "running"
    /\ stack' = <<PublicFrame(a)>>
    /\ input' = a
    /\ invocations' = invocations + 1
    /\ result' = <<>>
    /\ dispatches' = 0
    /\ bodyExecs' = 0
    /\ reentries' = 0
    /\ overflowed' = FALSE
    /\ UNCHANGED <<prog, overflow_checks, cell, ctVars>>

\* move |args| -> ret { inner.call(args) }
PublicCall ==
    /\ Running
    /\ Top.fn = "public"
    /\ Top.pc = "start"
    /\ Call("wait", HideFnCallFrame(Top.this, Top.args))
    /\ dispatches' = IF Len(stack) < MaxDepth THEN dispatches + 1 ELSE dispatches
    /\ UNCHANGED <<prog, overflow_checks, cell, result, input, invocations,
                   bodyExecs, reentries, overflowed, ctVars>>

\* fn call(&self, args) -> ret { self.0(self, args) }
HideFnCall ==
    /\ Running
    /\ Top.fn = "call"
    /\ Top.pc = "start"
    /\ Call("wait", ClosureFrame(Top.this, Top.args))
    /\ UNCHANGED <<prog, overflow_checks, cell, result, input, invocations,
                   dispatches, bodyExecs, reentries, overflowed, ctVars>>

\* let $self_arg = |args| $self_arg.call(args); then the body block is entered
ClosureBind ==
    /\ Running
    /\ Top.fn = "closure"
    /\ Top.pc = "start"
    /\ Goto("body", <<>>)
    /\ bodyExecs' = bodyExecs + 1
    /\ UNCHANGED <<prog, overflow_checks, cell, result, input, invocations,
                   dispatches, reentries, overflowed, ctVars>>

\* the forwarding closure runs: $self_arg.call(args)
SelfArgCall ==
    /\ Running
    /\ Top.fn = "self_arg"
    /\ Top.pc = "start"
    /\ Call("wait", HideFnCallFrame(Top.this, Top.args))
    /\ dispatches' = IF Len(stack) < MaxDepth THEN dispatches + 1 ELSE dispatches
    /\ reentries' = reentries + 1
    /\ UNCHANGED <<prog, overflow_checks, cell, result, input, invocations,
                   bodyExecs, overflowed, ctVars>>

\* the top frame returns its value to its caller
Return ==
    /\ Running
    /\ Top.pc = "ret"
    /\ IF Len(stack) = 1
       THEN /\ stack' = <<>>
            /\ status' = "idle"
            /\ result' = <<Top.val>>
       ELSE /\ stack' = [SubSeq(stack, 1, Len(stack) - 1)
                            EXCEPT ![Len(stack) - 1] = Resume(stack[Len(stack) - 1], Top.val)]
            /\ status' = status
            /\ result' = result
    /\ UNCHANGED <<prog, overflow_checks, cell, input, invocations,
                   dispatches, bodyExecs, reentries, overflowed, ctVars>>

InBody(p, pc) ==
    /\ Running
    /\ prog = p
    /\ Top.fn = "closure"
    /\ Top.pc = pc

\* ------------------------------------------------------------ the fib body

\* i - 1
FibFirstArg(i) == U32Sub(i, U32(1))

\* FibSecondArg computing i - 1
FibSecondArg_same(i) == U32Sub(i, U32(1))

\* i - 2
FibSecondArg(i) == U32Sub(i, U32(2))

\* if i <= 1 { i } else { fib(i - 1) ...
FibBody ==
    /\ InBody("fib", "body")
    /\ LET i == Top.args[1] IN
       IF U32Le(i, U32(1))
       THEN /\ Goto("ret", i)
            /\ overflowed' = overflowed
       ELSE Checked(FibFirstArg(i),
                    Call("wait1", SelfArgFrame(Top.this, <<FibFirstArg(i).val>>)))
    /\ UNCHANGED <<prog, overflow_checks, cell, result, input, invocations,
                   dispatches, bodyExecs, reentries, ctVars>>

\* ... + fib(i - 2)
FibSecond ==
    /\ InBody("fib", "got1")
    /\ LET i == Top.args[1] IN
       Checked(FibSecondArg(i),
               Call("wait2", SelfArgFrame(Top.this, <<FibSecondArg(i).val>>)))
    /\ UNCHANGED <<prog, overflow_checks, cell, result, input, invocations,
                   dispatches, bodyExecs, reentries, ctVars>>

\* fib(i - 1) + fib(i - 2)
FibAdd ==
    /\ InBody("fib", "got2")
    /\ LET sum == U32Add(Top.val, Top.tmp) IN
       Checked(sum, Goto("ret", sum.val))
    /\ UNCHANGED <<prog, overflow_checks, cell, result, input, invocations,
                   dispatches, bodyExecs, reentries, ctVars>>

\* ---------------------------------------------- the counting closure's body

\* cell.borrow(): the shared guard is taken, or the cell is mutably borrowed
Borrow(c) == [c EXCEPT !.readers = c.readers + 1]

\* the Ref temporary of the if condition is dropped when the condition ends
ReleaseShared(c) == [c EXCEPT !.readers = c.readers - 1]

\* cell.borrow_mut(): the exclusive guard is taken
BorrowMut(c) == [c EXCEPT !.writing = TRUE]

\* ReleaseMut with the guard kept alive across the recursive call
ReleaseMut_held(c) == c

\* the RefMut temporary is dropped at the end of the statement
ReleaseMut(c) == [c EXCEPT !.writing = FALSE]

\* if *cell.borrow() ...
CountBorrow ==
    /\ InBody("count", "body")
    /\ IF cell.writing
       THEN /\ Panic
            /\ cell' = cell
       ELSE /\ Goto("cmp", <<>>)
            /\ cell' = Borrow(cell)
    /\ UNCHANGED <<prog, overflow_checks, result, input, invocations,
                   dispatches, bodyExecs, reentries, overflowed, ctVars>>

\* ... == 10 { 10 } else { ...
CountCompare ==
    /\ InBody("count", "cmp")
    /\ IF cell.value = CountLimit
       THEN Goto("ret", CountLimit)
       ELSE Goto("incr", <<>>)
    /\ cell' = ReleaseShared(cell)
    /\ UNCHANGED <<prog, overflow_checks, result, input, invocations,
                   dispatches, bodyExecs, reentries, overflowed, ctVars>>

\* *cell.borrow_mut() ...
CountBorrowMut ==
    /\ InBody("count", "incr")
    /\ IF cell.writing \/ cell.readers > 0
       THEN /\ Panic
            /\ cell' = cell
       ELSE /\ Goto("add", <<>>)
            /\ cell' = BorrowMut(cell)
    /\ UNCHANGED <<prog, overflow_checks, result, input, invocations,
                   dispatches, bodyExecs, reentries, overflowed, ctVars>>

\* ... += 1;
CountAdd ==
    /\ InBody("count", "add")
    /\ LET sum == I32Add(cell.value, 1) IN
       /\ Checked(sum, Goto("rec", <<>>))
       /\ cell' = IF sum.ovf /\ overflow_checks
                  THEN ReleaseMut(cell)
                  ELSE ReleaseMut([cell EXCEPT !.value = sum.val])
    /\ UNCHANGED <<prog, overflow_checks, result, input, invocations,
                   dispatches, bodyExecs, reentries, ctVars>>

\* rec()
CountRec ==
    /\ InBody("count", "rec")
    /\ Call("wait_rec", SelfArgFrame(Top.this, <<>>))
    /\ UNCHANGED <<prog, overflow_checks, cell, result, input, invocations,
                   dispatches, bodyExecs, reentries, overflowed, ctVars>>

\* ------------------------------------------------------------ the pow body

\* the arguments of the recursive call of the even branch: pow(x * x, x / 2)
PowEvenArgs(x, y) == <<U32Mul(x, x).val, U32Half(x)>>

\* the arguments of the recursive call of the odd branch: pow(x, y - 1)
PowOddArgs(x, y) == <<x, U32Sub(y, U32(1)).val>>

\* if y == 1 { x } else if x % 2 == 0 { pow(x * x, x / 2) } else { x * pow(x, y - 1) }
PowBody ==
    /\ InBody("pow", "body")
    /\ LET x == Top.args[1]
           y == Top.args[2]
       IN  IF y = U32(1)
           THEN /\ Goto("ret", x)
                /\ overflowed' = overflowed
           ELSE IF U32IsEven(x)
           THEN Checked(U32Mul(x, x),
                        Call("wait_even", SelfArgFrame(Top.this, PowEvenArgs(x, y))))
           ELSE Checked(U32Sub(y, U32(1)),
                        Call("wait_odd", SelfArgFrame(Top.this, PowOddArgs(x, y))))
    /\ UNCHANGED <<prog, overflow_checks, cell, result, input, invocations,
                   dispatches, bodyExecs, reentries, ctVars>>

\* x * pow(x, y - 1), once the recursive call has returned
PowMul ==
    /\ InBody("pow", "got_odd")
    /\ LET prod == U32Mul(Top.args[1], Top.val) IN
       Checked(prod, Goto("ret", prod.val))
    /\ UNCHANGED <<prog, overflow_checks, cell, result, input, invocations,
                   dispatches, bodyExecs, reentries, ctVars>>

\* ---------------------------------------------------- the run-time machine

\* a closure specification that is not being compiled
NoShape == [mov |-> FALSE, self |-> "rec", selfAnn |-> FALSE, anns |-> <<>>,
            ret |-> TRUE, trailing |-> FALSE]

Init ==
    /\ prog \in {"count", "fib", "pow"}
    /\ overflow_checks \in BOOLEAN
    /\ stack = <<>>
    /\ cell = [value |-> 0, readers |-> 0, writing |-> FALSE]
    /\ status = "idle"
    /\ result = <<>>
    /\ input = <<>>
    /\ invocations = 0
    /\ dispatches = 0
    /\ bodyExecs = 0
    /\ reentries = 0
    /\ overflowed = FALSE
    /\ shape = NoShape
    /\ source = <<>>
    /\ compiled = <<>>

Next ==
    \/ \E a \in ArgSpace(prog) : Invoke(a)
    \/ PublicCall
    \/ HideFnCall
    \/ ClosureBind
    \/ SelfArgCall
    \/ Return
    \/ FibBody
    \/ FibSecond
    \/ FibAdd
    \/ CountBorrow
    \/ CountCompare
    \/ CountBorrowMut
    \/ CountAdd
    \/ CountRec
    \/ PowBody
    \/ PowMul

Spec == Init /\ [][Next]_vars

\* ------------------------------------------------ the macro at compile time

(***************************************************************************)
(* A token stream is a sequence of strings.  A fragment that spans several *)
(* tokens in Rust (a type, a block) is one token here: "u32" is a type,    *)
(* "{}" a block.  macro_rules! tries the rules in order; a rule that does  *)
(* not match is given up and the next one tried.                           *)
(***************************************************************************)

Idents == {"move", "rec", "fib", "x", "y", "z", "w", "u32"}

\* whether token t is a fragment of the kind: ident, ty, block or expr
MayBe(kind, t) ==
    CASE kind = "ident" -> t \in Idents
      [] kind = "ty"    -> t \in Idents \ {"move"}
      [] kind = "block" -> t = "{}"
      [] kind = "expr"  -> t = "{}"

\* the positions after the literal token t, matched at a position of P
Tok(ts, P, t) == {p + 1 : p \in {q \in P : q <= Len(ts) /\ ts[q] = t}}

\* the positions after a fragment of the kind, matched at a position of P
Frag(ts, P, kind) == {p + 1 : p \in {q \in P : q <= Len(ts) /\ MayBe(kind, ts[q])}}

\* $($mov:ident)? |
MovPipe(ts) == Tok(ts, {1} \cup Frag(ts, {1}, "ident"), "|")

\* , $arg_name:ident : $arg_type:ty
TypedArg(ts, P) == Frag(ts, Tok(ts, Frag(ts, Tok(ts, P, ","), "ident"), ":"), "ty")

\* , $arg_name:ident $(: $arg_type:ty)?
AnyArg(ts, P) ==
    LET name == Frag(ts, Tok(ts, P, ","), "ident")
    IN  name \cup Frag(ts, Tok(ts, name, ":"), "ty")

\* $(, $arg_name:ident : $arg_type:ty)*
RECURSIVE TypedArgs(_, _)
TypedArgs(ts, P) ==
    LET Q == P \cup TypedArg(ts, P)
    IN  IF Q = P THEN P ELSE TypedArgs(ts, Q)

\* $(, $arg_name:ident $(: $arg_type:ty)?)*
RECURSIVE AnyArgs(_, _)
AnyArgs(ts, P) ==
    LET Q == P \cup AnyArg(ts, P)
    IN  IF Q = P THEN P ELSE AnyArgs(ts, Q)

\* $(,)? |
CommaPipe(ts, P) == Tok(ts, P \cup Tok(ts, P, ","), "|")

\* -> $ret_type:ty $body:block, to the end of the input
RetBlock(ts, P) == Len(ts) + 1 \in Frag(ts, Frag(ts, Tok(ts, P, "->"), "ty"), "block")

\* $self_arg:ident $(, $arg_name:ident : $arg_type:ty)* $(,)? | -> $ret_type:ty $body:block
Rule1(ts) ==
    RetBlock(ts, CommaPipe(ts, TypedArgs(ts, Frag(ts, MovPipe(ts), "ident"))))

\* Rule2Item without the optional annotation
Rule2Item_bare(ts, P) == Frag(ts, P, "ident")

\* $arg_name:ident $(: $arg_type:ty)? : the first item of rule 2's list
Rule2Item(ts, P) ==
    LET name == Frag(ts, P, "ident")
    IN  name \cup Frag(ts, Tok(ts, name, ":"), "ty")

\* $($arg_name:ident $(: $arg_type:ty)?),* : no item, or one and more after commas
Rule2List(ts, P) == P \cup AnyArgs(ts, Rule2Item(ts, P))

\* $($mov:ident)? |$($arg_name:ident $(: $arg_type:ty)?),* $(,)?| $body:expr
Rule2(ts) ==
    Len(ts) + 1 \in Frag(ts, CommaPipe(ts, Rule2List(ts, MovPipe(ts))), "expr")

\* $self_arg:ident : $self_type:ty $(, $arg_name:ident $(: $arg_type:ty)?)* $(,)? | -> ...
Rule3(ts) ==
    LET self == Frag(ts, Tok(ts, Frag(ts, MovPipe(ts), "ident"), ":"), "ty")
    IN  RetBlock(ts, CommaPipe(ts, AnyArgs(ts, self)))

\* Rule4 demanding the annotations, as rule 1 does
Rule4_typed(ts) ==
    RetBlock(ts, CommaPipe(ts, TypedArgs(ts, Frag(ts, MovPipe(ts), "ident"))))

\* $self_arg:ident $(, $arg_name:ident $(: $arg_type:ty)?)* $(,)? | -> ...
Rule4(ts) ==
    RetBlock(ts, CommaPipe(ts, AnyArgs(ts, Frag(ts, MovPipe(ts), "ident"))))

\* SelfArg overlooking the optional move
SelfArg_nomove(ts) == ts[2]

\* the token $self_arg is bound to: the one after the opening |
SelfArg(ts) == IF ts[1] = "|" THEN ts[2] ELSE ts[3]

NeedsReturnType == <<"Closure passed to fix_fn needs return type!">>
FirstParameter(name) == <<"First parameter ", name, " may not have type annotation!">>
AllParameters == <<"All parameters except first need to have an explicit type annotation!">>

\* fix_fn with rule 4 tried before rule 1
fix_fn_reordered(ts) ==
    IF Rule4(ts) THEN [kind |-> "compile_error", msg |-> AllParameters]
    ELSE IF Rule1(ts) THEN [kind |-> "expansion", msg |-> <<>>]
    ELSE IF Rule2(ts) THEN [kind |-> "compile_error", msg |-> NeedsReturnType]
    ELSE IF Rule3(ts) THEN [kind |-> "compile_error", msg |-> FirstParameter(SelfArg(ts))]
    ELSE [kind |-> "no_rule", msg |-> <<>>]

\* the outcome of fix_fn!(ts): the first rule that matches decides
fix_fn(ts) ==
    IF Rule1(ts) THEN [kind |-> "expansion", msg |-> <<>>]
    ELSE IF Rule2(ts) THEN [kind |-> "compile_error", msg |-> NeedsReturnType]
    ELSE IF Rule3(ts) THEN [kind |-> "compile_error", msg |-> FirstParameter(SelfArg(ts))]
    ELSE IF Rule4(ts) THEN [kind |-> "compile_error", msg |-> AllParameters]
    ELSE [kind |-> "no_rule", msg |-> <<>>]

\* the names of the additional parameters, by position
ParamNames == <<"x", "y", "z", "w">>

\* the annotation patterns of at most n additional parameters
AnnSeqs(n) == UNION {[1 .. k -> BOOLEAN] : k \in 0 .. n}

\* the closure specifications of the interface:
\*   <opt-move>? |<self-name> [, <param>: <kind>]* | -> <result-kind> { <body> }
\* with each annotation and the result kind present or not
Shapes ==
    [mov : BOOLEAN, self : {"rec", "fib"}, selfAnn : BOOLEAN,
     anns : AnnSeqs(MaxParams), ret : BOOLEAN, trailing : BOOLEAN]

RECURSIVE ParamTokens(_, _)
ParamTokens(anns, k) ==
    IF k > Len(anns) THEN <<>>
    ELSE <<",", ParamNames[k]>>
         \o (IF anns[k] THEN <<":", "u32">> ELSE <<>>)
         \o ParamTokens(anns, k + 1)

\* the token stream of a closure specification
Tokens(sh) ==
    (IF sh.mov THEN <<"move">> ELSE <<>>)
    \o <<"|", sh.self>>
    \o (IF sh.selfAnn THEN <<":", "u32">> ELSE <<>>)
    \o ParamTokens(sh.anns, 1)
    \o (IF sh.trailing THEN <<",">> ELSE <<>>)
    \o <<"|">>
    \o (IF sh.ret THEN <<"->", "u32">> ELSE <<>>)
    \o <<"{}">>

MacroInit ==
    /\ shape \in Shapes
    /\ source = Tokens(shape)
    /\ compiled = <<>>
    /\ prog = "count"
    /\ overflow_checks = TRUE
    /\ stack = <<>>
    /\ cell = [value |-> 0, readers |-> 0, writing |-> FALSE]
    /\ status = "idle"
    /\ result = <<>>
    /\ input = <<>>
    /\ invocations = 0
    /\ dispatches = 0
    /\ bodyExecs = 0
    /\ reentries = 0
    /\ overflowed = FALSE

\* the compiler expands the macro invocation
Expand ==
    /\ compiled = <<>>
    /\ compiled' = <<fix_fn(source)>>
    /\ UNCHANGED <<shape, source, rtVars>>

MacroNext == Expand

MacroSpec == MacroInit /\ [][MacroNext]_vars

\* --------------------------------------------------------------- properties

\* the current invocation has returned a value to its caller
Returned == status = "idle" /\ result # <<>>

\* the top frame is the user body at pc
BodyAt(pc) == Running /\ Top.fn = "closure" /\ Top.pc = pc

\* the i-th Fibonacci number
RECURSIVE Fibonacci(_)
Fibonacci(n) == IF n <= 1 THEN n ELSE Fibonacci(n - 1) + Fibonacci(n - 2)

\* x to the power y
RECURSIVE Power(_, _)
Power(x, y) == IF y = 0 THEN 1 ELSE x * Power(x, y - 1)

\* C1: the callable produced for the fib specification never panics or
\* overflows for i in 0 .. MaxFibArg, and what it returns for i is the i-th
\* Fibonacci number.
C1_FibFixedPoint ==
    prog = "fib" =>
        /\ status \in {"idle", "running"}
        /\ Returned =>
              \E i \in 0 .. MaxFibArg :
                  /\ input = <<U32(i)>>
                  /\ result = <<U32(Fibonacci(i))>>

\* fib(7) has returned 13
C1_Witness ==
    /\ prog = "fib"
    /\ Returned
    /\ input = <<U32(7)>>
    /\ result = <<U32(13)>>

\* whether the specification is of the shape rule 1 expands
WellFormed(sh) ==
    /\ ~sh.selfAnn
    /\ sh.ret
    /\ \A k \in DOMAIN sh.anns : sh.anns[k]

\* the three fixed diagnostics, for a specification whose self parameter is name
Diagnostics(name) == {NeedsReturnType, FirstParameter(name), AllParameters}

\* C2: the macro produces the expansion exactly for the specifications whose
\* self parameter is unannotated, whose additional parameters are all annotated
\* and whose result kind is present; for every other it produces a compile
\* error carrying one of the three fixed diagnostics.
C2_ExpansionIffWellFormed ==
    compiled # <<>> =>
        /\ compiled[1].kind = "expansion" <=> WellFormed(shape)
        /\ ~WellFormed(shape) =>
              /\ compiled[1].kind = "compile_error"
              /\ compiled[1].msg \in Diagnostics(shape.self)

\* a move specification with two annotated parameters and a trailing comma
\* has been expanded
C2_Witness ==
    /\ compiled # <<>>
    /\ compiled[1].kind = "expansion"
    /\ shape.mov
    /\ shape.trailing
    /\ Len(shape.anns) = 2

\* C3: a specification without result kind is rejected with "Closure passed to
\* fix_fn needs return type!", whatever else it holds.
C3_NoReturnType ==
    (compiled # <<>> /\ ~shape.ret) =>
        compiled[1] = [kind |-> "compile_error", msg |-> NeedsReturnType]

\* a move specification without result kind, with an annotated self parameter
\* and an unannotated additional one, has been rejected
C3_Witness ==
    /\ compiled # <<>>
    /\ ~shape.ret
    /\ shape.mov
    /\ shape.selfAnn
    /\ \E k \in DOMAIN shape.anns : ~shape.anns[k]
    /\ compiled[1].kind = "compile_error"

\* C4, as claimed: every specification whose self parameter is annotated is
\* rejected with "First parameter <name> may not have type annotation!".
C4_AsClaimed ==
    (compiled # <<>> /\ shape.selfAnn) =>
        compiled[1] = [kind |-> "compile_error", msg |-> FirstParameter(shape.self)]

\* C4, amended: every specification whose self parameter is annotated and
\* whose result kind is present is rejected with "First parameter <name> may
\* not have type annotation!", <name> being the self parameter.
C4_SelfAnnotated ==
    (compiled # <<>> /\ shape.selfAnn /\ shape.ret) =>
        compiled[1] = [kind |-> "compile_error", msg |-> FirstParameter(shape.self)]

\* a move specification with result kind and annotated self parameter fib has
\* been rejected
C4_Witness ==
    /\ compiled # <<>>
    /\ shape.selfAnn
    /\ shape.ret
    /\ shape.mov
    /\ shape.self = "fib"
    /\ compiled[1].kind = "compile_error"

\* some additional parameter of the specification has no annotation
SomeUnannotated(sh) == \E k \in DOMAIN sh.anns : ~sh.anns[k]

\* C5, as claimed: every specification with an unannotated additional parameter
\* is rejected with "All parameters except first need to have an explicit type
\* annotation!".
C5_AsClaimed ==
    (compiled # <<>> /\ SomeUnannotated(shape)) =>
        compiled[1] = [kind |-> "compile_error", msg |-> AllParameters]

\* C5, amended: every specification with an unannotated additional parameter,
\* an unannotated self parameter and a result kind is rejected with "All
\* parameters except first need to have an explicit type annotation!".
C5_ParamUnannotated ==
    (compiled # <<>> /\ SomeUnannotated(shape) /\ ~shape.selfAnn /\ shape.ret) =>
        compiled[1] = [kind |-> "compile_error", msg |-> AllParameters]

\* a specification with result kind, unannotated self parameter and one
\* annotated and one unannotated additional parameter has been rejected
C5_Witness ==
    /\ compiled # <<>>
    /\ shape.ret
    /\ ~shape.selfAnn
    /\ shape.anns = <<TRUE, FALSE>>
    /\ compiled[1].kind = "compile_error"

\* C6: the counting closure never panics; every invocation returns 10 and
\* leaves the counter at 10; in the first invocation the body entered by the
\* k-th re-entry sees the counter at k; the first invocation re-enters 10
\* times and every later one not at all.
C6_CountingClosure ==
    prog = "count" =>
        /\ status \in {"idle", "running"}
        /\ (invocations = 1 /\ BodyAt("body")) => cell.value = reentries
        /\ Returned =>
              /\ result = <<CountLimit>>
              /\ cell.value = CountLimit
              /\ reentries = IF invocations = 1 THEN CountLimit ELSE 0

\* the third invocation of the counting closure has returned
C6_Witness ==
    /\ prog = "count"
    /\ Returned
    /\ invocations = 3
    /\ result = <<CountLimit>>

\* C7, as claimed: pow(x, y) returns x to the power y for every x >= 1 and
\* y >= 1 of the range.
C7_PowIsPower ==
    \A x \in 1 .. MaxPowX, y \in 1 .. MaxPowY :
        (prog = "pow" /\ Returned /\ input = <<U32(x), U32(y)>>) =>
            result = <<U32(Power(x, y))>>

\* the frames HideFn::call has been dispatched for and whose body is not yet entered
Entering ==
    {k \in 1 .. Len(stack) : stack[k].pc = "start" /\ stack[k].fn \in {"call", "closure"}}

\* C8: every frame holds the single instance inner; every body frame sits on
\* a HideFn::call frame with the same arguments, every HideFn::call frame on
\* the public closure or the forwarding closure with the same arguments, the
\* public closure holds the caller's arguments; and the HideFn::call
\* dispatches are the body executions plus the dispatch whose body is being
\* entered, so that the two counts are equal whenever a body runs or returns.
C8_OneDispatchPerBody ==
    /\ \A k \in 1 .. Len(stack) :
          /\ stack[k].this = Inner
          /\ (stack[k].fn = "public") = (k = 1)
          /\ stack[k].fn = "public" => stack[k].args = input
          /\ stack[k].fn = "closure" =>
                /\ stack[k - 1].fn = "call"
                /\ stack[k - 1].args = stack[k].args
          /\ stack[k].fn = "call" =>
                /\ stack[k - 1].fn \in {"public", "self_arg"}
                /\ stack[k - 1].args = stack[k].args
          /\ stack[k].fn = "self_arg" => stack[k - 1].fn = "closure"
    /\ Cardinality(Entering) <= 1
    /\ dispatches = bodyExecs + Cardinality(Entering)

\* the body of pow runs for the third time in one invocation, its arguments
\* differing from each other
C8_Witness ==
    /\ prog = "pow"
    /\ BodyAt("body")
    /\ Top.args[1] # Top.args[2]
    /\ bodyExecs = 3
    /\ dispatches = 3

\* a body frame is active below another one with the same arguments
Reentered ==
    \E j, k \in 1 .. Len(stack) :
        /\ j < k
        /\ stack[j].fn = "closure"
        /\ stack[k].fn = "closure"
        /\ stack[j].args = stack[k].args

\* C9, as claimed: a call pow(x, y) with y >= 1 overflows nowhere, panics
\* nowhere, does not exhaust the stack and never re-enters the body with the
\* arguments of a call that is still active.
C9_PowTerminates ==
    (prog = "pow" /\ invocations > 0 /\ input[2] # U32(0)) =>
        /\ ~overflowed
        /\ status \in {"idle", "running"}
        /\ ~Reentered

\* the RefCell is not borrowed
Unborrowed == cell.readers = 0 /\ ~cell.writing

\* C10: the counting closure never panics, and its RefCell is borrowed only
\* while the body evaluates the comparison or the increment: it is unborrowed
\* when the body is entered, when the mutable borrow is taken and when rec()
\* is called, and through every call made.
C10_NoBorrowAcrossCalls ==
    prog = "count" =>
        /\ status # "panicked"
        /\ cell.readers > 0 => (BodyAt("cmp") /\ cell.readers = 1 /\ ~cell.writing)
        /\ cell.writing => BodyAt("add")

\* the fifth re-entry calls rec() with the RefCell unborrowed
C10_Witness ==
    /\ prog = "count"
    /\ BodyAt("rec")
    /\ reentries = 5
    /\ cell.value = 6
    /\ Unborrowed

=============================================================================
